---- MODULE Spec2Model ----
(***************************************************************************)
(* CivicChain AI insights: the get-ai-insights edge function (Proxy) in    *)
(* its DeepSeek and Gemini revisions, and the AiInsights React component   *)
(* (Widget) in its three revisions.                                        *)
(***************************************************************************)
EXTENDS Integers, Sequences, FiniteSets, TLC

VARIABLES
    proxyKind,    \* which revision of the edge function is deployed
    apiKey,       \* Deno.env.get("<VENDOR>_API_KEY") is set
    ppc,          \* position of the request handler
    req,          \* the inbound request being handled
    vendorCalls,  \* outbound fetch() calls issued for this request
    vendorReply,  \* what the vendor answered to the fetch
    resp,         \* the Response the handler returned
    responses,    \* number of Responses returned for this request
    escaped,      \* an exception left the handler
    widgetKind,   \* which revision of AiInsights is mounted
    budgetData,   \* the budgetData prop
    insights,     \* useState<string>("")
    loading,      \* useState(false)
    toast,        \* title of the last toast shown
    pending,      \* payloads of supabase.functions.invoke calls in flight
    lastEvent,    \* last thing that happened to the widget
    outcome,      \* how the most recent request ended
    lastStatus,   \* HTTP status carried by the last invoke error
    raw,          \* a raw budget row handed to the coercion
    norm          \* the rows coerced so far

proxyVars == <<proxyKind, apiKey, ppc, req, vendorCalls, vendorReply, resp,
               responses, escaped>>
widgetVars == <<widgetKind, budgetData, insights, loading, toast, pending,
                lastEvent, outcome, lastStatus>>
normVars == <<raw, norm>>
vars == <<proxyVars, widgetVars, normVars>>

-----------------------------------------------------------------------------
(* Proxy: supabase/functions/get-ai-insights                               *)

ProxyKinds == {"deepseek", "gemini"}
Methods == {"OPTIONS", "POST"}

\* JSON bodies, by what the handler can observe of them.
\*  json: "malformed" (req.json() rejects), "null" (destructuring throws),
\*        "object"
\*  prompt: "absent" | "empty" | "string" | "number"
\*  budgetData: "absent" | "rows" | "notArray" (truthy, has no .map)
\*  department: "absent" | "empty" | "string"
ObjectBodies ==
    [json : {"object"},
     prompt : {"absent", "empty", "string", "number"},
     budgetData : {"absent", "rows", "notArray"},
     department : {"absent", "empty", "string"}]
Bodies ==
    ObjectBodies \cup
    [json : {"malformed", "null"}, prompt : {"absent"},
     budgetData : {"absent"}, department : {"absent"}]
Requests == [method : Methods, body : Bodies]
NoRequest == [method |-> "none",
              body |-> [json |-> "none", prompt |-> "absent",
                        budgetData |-> "absent", department |-> "absent"]]

ErrorStatuses == {400, 429, 500}
VendorReplies ==
    [kind : {"network"}, status : {0}, body : {"none"}]
    \cup [kind : {"http"}, status : ErrorStatuses, body : {"raw", "unreadable"}]
    \cup [kind : {"http"}, status : {200}, body : {"text", "noText", "notJson"}]
NoReply == [kind |-> "none", status |-> 0, body |-> "none"]

NoResponse == [status |-> 0, shape |-> "none", error |-> "", details |-> "",
               vstatus |-> 0, insights |-> ""]
\* new Response(null, { headers: corsHeaders })
emptyResponse == [status |-> 200, shape |-> "empty", error |-> "",
                  details |-> "", vstatus |-> 0, insights |-> ""]
\* new Response(JSON.stringify({ error, [status,] [details] }), { status })
errorResponse(st, msg, det, vst) ==
    [status |-> st, shape |-> "error", error |-> msg, details |-> det,
     vstatus |-> vst, insights |-> ""]
\* new Response(JSON.stringify({ insights }), { headers })
insightsResponse(text) ==
    [status |-> 200, shape |-> "insights", error |-> "", details |-> "",
     vstatus |-> 0, insights |-> text]

\* Outcomes of the try block: return a Response, await the fetch, or throw.
Return(r) == [kind |-> "return", resp |-> r]
Fetch == [kind |-> "fetch", resp |-> NoResponse]
Throw == [kind |-> "throw", resp |-> NoResponse]

\* JS truthiness of the destructured fields
truthy(field) == field \notin {"absent", "empty"}

\* deepseekTry without the guard on the key
deepseekTryNoKeyCheck(key, body) ==
    IF body.json \in {"malformed", "null"}
    THEN Throw
    ELSE IF ~truthy(body.budgetData) \/ ~truthy(body.department)
    THEN Return(errorResponse(400, "Budget data and department are required",
                              "", 0))
    ELSE IF body.budgetData = "notArray"
    THEN Throw
    ELSE Fetch

\* index.ts (DeepSeek), try block up to the fetch
deepseekTry(key, body) ==
    IF ~key
    THEN Return(errorResponse(500, "DeepSeek API key not configured", "", 0))
    ELSE IF body.json \in {"malformed", "null"}
    THEN Throw
    ELSE IF ~truthy(body.budgetData) \/ ~truthy(body.department)
    THEN Return(errorResponse(400, "Budget data and department are required",
                              "", 0))
    ELSE IF body.budgetData = "notArray"
    THEN Throw
    ELSE Fetch

\* part_001 (Gemini), try block up to the fetch
geminiTry(key, body) ==
    IF body.json \in {"malformed", "null"}
    THEN Throw
    ELSE IF ~truthy(body.prompt) \/ body.prompt # "string"
    THEN Return(errorResponse(400, "Invalid or missing prompt", "", 0))
    ELSE IF ~key
    THEN Return(errorResponse(500,
                    "Server misconfigured: Missing GEMINI_API_KEY", "", 0))
    ELSE Fetch

\* deepseekAfterFetch answering every vendor failure with 500
deepseekAfterFetchFixedStatus(v) ==
    IF v.kind = "network"
    THEN Throw
    ELSE IF v.status # 200
    THEN IF v.body = "unreadable"
         THEN Throw
         ELSE Return(errorResponse(500,
                        "Failed to get AI insights from DeepSeek",
                        "vendorBody", 0))
    ELSE IF v.body = "notJson"
    THEN Throw
    ELSE Return(insightsResponse(IF v.body = "text" THEN "vendorText"
                                 ELSE "No insights returned."))

\* index.ts, from the resolution of the fetch to the end of the try block
deepseekAfterFetch(v) ==
    IF v.kind = "network"
    THEN Throw
    ELSE IF v.status # 200
    THEN IF v.body = "unreadable"
         THEN Throw
         ELSE Return(errorResponse(v.status,
                        "Failed to get AI insights from DeepSeek",
                        "vendorBody", 0))
    ELSE IF v.body = "notJson"
    THEN Throw
    ELSE Return(insightsResponse(IF v.body = "text" THEN "vendorText"
                                 ELSE "No insights returned."))

\* part_001, from the resolution of the fetch to the end of the try block
geminiAfterFetch(v) ==
    IF v.kind = "network"
    THEN Throw
    ELSE IF v.status # 200
    THEN IF v.body = "unreadable"
         THEN Throw
         ELSE Return(errorResponse(500, "Gemini API call failed",
                                   "vendorBody", v.status))
    ELSE IF v.body = "notJson"
    THEN Throw
    ELSE Return(insightsResponse(IF v.body = "text" THEN "vendorText"
                                 ELSE "No insights generated."))

\* The catch clause of each handler
catchResponse(kind) ==
    IF kind = "deepseek"
    THEN errorResponse(500, "Internal server error", "exception", 0)
    ELSE errorResponse(500, "Edge Function crashed", "exception", 0)

\* tryCatch with the catch clause missing
tryNoCatch(kind, result) == result

\* try { ... } catch: a throw becomes the catch clause's Response
tryCatch(kind, result) ==
    IF result.kind = "throw" THEN Return(catchResponse(kind)) ELSE result

\* index.ts answers the pre-flight before the try block; part_001 has no
\* pre-flight branch.
answersPreflight(kind, method) == kind = "deepseek" /\ method = "OPTIONS"

proxyTry(kind, key, body) ==
    IF kind = "deepseek" THEN deepseekTry(key, body) ELSE geminiTry(key, body)

proxyAfterFetch(kind, v) ==
    IF kind = "deepseek" THEN deepseekAfterFetch(v) ELSE geminiAfterFetch(v)

ProxyInit ==
    /\ proxyKind \in ProxyKinds
    /\ apiKey \in BOOLEAN
    /\ ppc = "idle"
    /\ req = NoRequest
    /\ vendorCalls = 0
    /\ vendorReply = NoReply
    /\ resp = NoResponse
    /\ responses = 0
    /\ escaped = FALSE

\* The secret is set or removed from the function's environment.
SetSecret ==
    /\ ppc = "idle"
    /\ apiKey' = ~apiKey
    /\ UNCHANGED <<proxyKind, ppc, req, vendorCalls, vendorReply, resp,
                   responses, escaped>>

\* A request reaches the function.
Receive ==
    /\ ppc = "idle"
    /\ \E r \in Requests : req' = r
    /\ ppc' = "received"
    /\ UNCHANGED <<proxyKind, apiKey, vendorCalls, vendorReply, resp,
                   responses, escaped>>

\* What a settled outcome of the handler does to the request's state.
Settle(result) ==
    IF result.kind = "return"
    THEN /\ resp' = result.resp
         /\ responses' = responses + 1
         /\ ppc' = "done"
         /\ UNCHANGED escaped
    ELSE /\ escaped' = TRUE
         /\ ppc' = "done"
         /\ UNCHANGED <<resp, responses>>

\* The handler runs from its first line to the fetch or to a Response.
Handle ==
    /\ ppc = "received"
    /\ IF answersPreflight(proxyKind, req.method)
       THEN /\ Settle(Return(emptyResponse))
            /\ UNCHANGED vendorCalls
       ELSE LET o == tryCatch(proxyKind, proxyTry(proxyKind, apiKey, req.body))
            IN  IF o.kind = "fetch"
                THEN /\ vendorCalls' = vendorCalls + 1
                     /\ ppc' = "awaitVendor"
                     /\ UNCHANGED <<resp, responses, escaped>>
                ELSE /\ Settle(o)
                     /\ UNCHANGED vendorCalls
    /\ UNCHANGED <<proxyKind, apiKey, req, vendorReply>>

\* The fetch settles and the handler runs to its Response.
VendorSettles ==
    /\ ppc = "awaitVendor"
    /\ \E v \in VendorReplies :
         /\ vendorReply' = v
         /\ Settle(tryCatch(proxyKind, proxyAfterFetch(proxyKind, v)))
    /\ UNCHANGED <<proxyKind, apiKey, req, vendorCalls>>

\* The Response is sent; nothing of the request survives.
Complete ==
    /\ ppc = "done"
    /\ ppc' = "idle"
    /\ req' = NoRequest
    /\ vendorCalls' = 0
    /\ vendorReply' = NoReply
    /\ resp' = NoResponse
    /\ responses' = 0
    /\ escaped' = FALSE
    /\ UNCHANGED <<proxyKind, apiKey>>

-----------------------------------------------------------------------------
(* Numeric coercion of a budget row: Number(x) || 0                        *)

MaxAmount == 1

\* JS numbers as far as the coercion can tell them apart
num(n) == [nan |-> FALSE, v |-> n]
NaN == [nan |-> TRUE, v |-> 0]

\* Raw field values as they arrive in a row
Amounts == (0 - MaxAmount)..MaxAmount
RawValues ==
    [t : {"number", "numericString"}, v : Amounts]
    \cup [t : {"NaN", "text", "emptyString", "null", "undefined"}, v : {0}]
rawNum(n) == [t |-> "number", v |-> n]
rawOf(type) == [t |-> type, v |-> 0]

\* Number(x)
Number(x) ==
    CASE x.t = "number" -> num(x.v)
      [] x.t = "numericString" -> num(x.v)
      [] x.t = "emptyString" -> num(0)
      [] x.t = "null" -> num(0)
      [] OTHER -> NaN

\* orZero without the default
orZeroMissing(n) == n

\* x || 0 on a number: NaN and 0 are falsy
orZero(n) == IF n.nan \/ n.v = 0 THEN num(0) ELSE n

coerce(x) == orZero(Number(x))

RawRows == [budget : RawValues, used : RawValues, remaining : RawValues]

\* budgetData.map((item) => ({ ..., allocated, spent, remaining }))
transformRow(item) ==
    [allocated |-> coerce(item.budget),
     spent |-> coerce(item.used),
     remaining |-> coerce(item.remaining)]

NoRaw == [budget |-> rawOf("undefined"), used |-> rawOf("undefined"),
          remaining |-> rawOf("undefined")]

-----------------------------------------------------------------------------
(* Widget: components/budget/AiInsights                                    *)

MaxRows == 2
MaxPending == 2

\* "prompt": src/components/budget/AiInsights.tsx
\* "promptFiltered": part_000, first component
\* "structured": part_000, second component
WidgetKinds == {"prompt", "promptFiltered", "structured"}

row(a, b, c) == [budget |-> a, used |-> b, remaining |-> c]
\* Rows the budgetData prop is drawn from: a row of a zero and of malformed
\* and missing values (all zero once coerced), a spent row, an overspent row
\* with only a negative remainder.
WidgetRows ==
    { row(rawNum(0), rawOf("text"), rawOf("undefined")),
      row(rawNum(1), [t |-> "numericString", v |-> 1], rawOf("null")),
      row(rawNum(0), rawNum(0), rawNum(0 - 1)) }

SeqsUpTo(S, n) == UNION { [1..k -> S] : k \in 0..n }
Budgets == SeqsUpTo(WidgetRows, MaxRows)

Texts == {"t1", "t2"}
\* What supabase.functions.invoke settles with: { data, error } or a throw
InvokeResults ==
    [kind : {"data"}, insights : Texts \cup {""}, status : {0}]
    \cup [kind : {"error"}, insights : {""}, status : ErrorStatuses \cup {0}]
    \cup [kind : {"throw"}, insights : {""}, status : {0}]

gt0(n) == ~n.nan /\ n.v > 0
ne0(n) == n.nan \/ n.v # 0

\* keepPositive with >= for >
keepNonNegative(item) ==
    \/ (~item.allocated.nan /\ item.allocated.v >= 0)
    \/ (~item.spent.nan /\ item.spent.v >= 0)
    \/ (~item.remaining.nan /\ item.remaining.v >= 0)

\* item.allocated > 0 || item.spent > 0 || item.remaining > 0
keepPositive(item) == gt0(item.allocated) \/ gt0(item.spent) \/ gt0(item.remaining)
\* item.account_budget !== 0 || item.used_amt !== 0 || item.remaining_amt !== 0
keepNonZero(item) == ne0(item.allocated) \/ ne0(item.spent) \/ ne0(item.remaining)

\* Which revisions filter the transformed rows
filters(kind) == kind \in {"promptFiltered", "structured"}

\* budgetData.map((item) => ({ ... }))
transformedBudget(data) == [i \in 1..Len(data) |-> transformRow(data[i])]

\* The predicate each revision hands to filter (none in AiInsights.tsx)
keeps(kind, item) ==
    CASE kind = "promptFiltered" -> keepPositive(item)
      [] kind = "structured" -> keepNonZero(item)
      [] OTHER -> TRUE

\* transformedBudget.filter(...)
RECURSIVE filterRows(_, _)
filterRows(kind, s) ==
    IF s = <<>> THEN <<>>
    ELSE IF keeps(kind, Head(s))
    THEN <<Head(s)>> \o filterRows(kind, Tail(s))
    ELSE filterRows(kind, Tail(s))

\* validBudget (the transformed rows themselves where nothing filters)
validBudget(kind, data) == filterRows(kind, transformedBudget(data))

\* clearsPrevious with the setInsights("") missing
clearsNothing(kind) == FALSE

\* setInsights("") before the request
clearsPrevious(kind) == kind \in {"prompt", "promptFiltered"}

\* disabled without the loading flag
disabledWhenEmpty(isLoading, data) == Len(data) = 0

\* disabled without the length of the data
disabledWhenLoading(isLoading, data) == isLoading

\* disabled={loading || !budgetData.length}
disabled(isLoading, data) == isLoading \/ Len(data) = 0

WidgetInit ==
    /\ widgetKind \in WidgetKinds
    /\ budgetData \in Budgets
    /\ insights = ""
    /\ loading = FALSE
    /\ toast = "none"
    /\ pending = <<>>
    /\ lastEvent = "mount"
    /\ outcome = "none"
    /\ lastStatus = 0

\* The parent re-renders the component with other rows.
SetBudgetData ==
    /\ \E d \in Budgets : budgetData' = d
    /\ lastEvent' = "props"
    /\ UNCHANGED <<widgetKind, insights, loading, toast, pending,
                   outcome, lastStatus>>

\* const getAiInsights = async () => { ... }, up to the await of the invoke
getAiInsights ==
    IF Len(budgetData) = 0
    THEN /\ toast' = "No Data Found"
         /\ lastEvent' = "clickNoData"
         /\ UNCHANGED <<insights, loading, pending, outcome>>
    ELSE LET valid == validBudget(widgetKind, budgetData)
             cleared == IF clearsPrevious(widgetKind) THEN "" ELSE insights
         IN  IF filters(widgetKind) /\ Len(valid) = 0
             THEN /\ toast' = "No Valid Data"
                  /\ loading' = FALSE
                  /\ insights' = cleared
                  /\ lastEvent' = "clickNoValid"
                  /\ outcome' = "noValid"
                  /\ UNCHANGED pending
             ELSE /\ loading' = TRUE
                  /\ insights' = cleared
                  /\ pending' = Append(pending, valid)
                  /\ lastEvent' = "clickSent"
                  /\ outcome' = "pending"
                  /\ UNCHANGED toast

\* The user clicks the trigger; a disabled button dispatches no onClick.
Click ==
    /\ Len(pending) < MaxPending
    /\ IF disabled(loading, budgetData)
       THEN /\ lastEvent' = "clickIgnored"
            /\ UNCHANGED <<insights, loading, toast, pending, outcome>>
       ELSE getAiInsights
    /\ UNCHANGED <<widgetKind, budgetData, lastStatus>>

\* afterFinally with the setLoading(false) missing
afterFinallyKept(isLoading) == isLoading

\* finally { setLoading(false) }: the loading flag after the handler ends
afterFinally(isLoading) == FALSE

\* The invoke settles and the handler runs to the end of its finally block.
InvokeSettles ==
    /\ pending # <<>>
    /\ pending' = Tail(pending)
    /\ \E r \in InvokeResults :
         /\ lastStatus' = r.status
         /\ IF r.kind \in {"error", "throw"}
            THEN /\ toast' = "Analysis Failed"
                 /\ outcome' = "failed"
                 /\ UNCHANGED insights
            ELSE IF r.insights # ""
            THEN /\ insights' = r.insights
                 /\ toast' = "AI Analysis Complete"
                 /\ outcome' = "success"
            ELSE IF widgetKind = "prompt"
            THEN /\ insights' = "No insights were generated."
                 /\ outcome' = "noInsights"
                 /\ UNCHANGED toast
            ELSE /\ toast' = "No Insights Generated"
                 /\ outcome' = "noInsights"
                 /\ UNCHANGED insights
    /\ loading' = afterFinally(loading)
    /\ lastEvent' = "settled"
    /\ UNCHANGED <<widgetKind, budgetData>>

-----------------------------------------------------------------------------
(* Specifications                                                          *)

WidgetIdle ==
    /\ widgetKind = "prompt"
    /\ budgetData = <<>>
    /\ insights = ""
    /\ loading = FALSE
    /\ toast = "none"
    /\ pending = <<>>
    /\ lastEvent = "mount"
    /\ outcome = "none"
    /\ lastStatus = 0

ProxyIdle ==
    /\ proxyKind = "deepseek"
    /\ apiKey = FALSE
    /\ ppc = "idle"
    /\ req = NoRequest
    /\ vendorCalls = 0
    /\ vendorReply = NoReply
    /\ resp = NoResponse
    /\ responses = 0
    /\ escaped = FALSE

NormIdle == raw = NoRaw /\ norm = <<>>

\* The edge function serving requests
ProxyNext ==
    \/ SetSecret /\ UNCHANGED <<widgetVars, normVars>>
    \/ Receive /\ UNCHANGED <<widgetVars, normVars>>
    \/ Handle /\ UNCHANGED <<widgetVars, normVars>>
    \/ VendorSettles /\ UNCHANGED <<widgetVars, normVars>>
    \/ Complete /\ UNCHANGED <<widgetVars, normVars>>

ProxySpecInit == ProxyInit /\ WidgetIdle /\ NormIdle

ProxySpec == ProxySpecInit /\ [][ProxyNext]_vars

\* The mounted component
WidgetNext ==
    \/ SetBudgetData /\ UNCHANGED <<proxyVars, normVars>>
    \/ Click /\ UNCHANGED <<proxyVars, normVars>>
    \/ InvokeSettles /\ UNCHANGED <<proxyVars, normVars>>

WidgetSpecInit == WidgetInit /\ ProxyIdle /\ NormIdle

WidgetSpec == WidgetSpecInit /\ [][WidgetNext]_vars

\* The mounted component, every invoke in flight settling (it returns or
\* throws)
WidgetFairSpec ==
    /\ WidgetSpecInit
    /\ [][WidgetNext]_vars
    /\ WF_vars(InvokeSettles /\ UNCHANGED <<proxyVars, normVars>>)

\* The coercion applied to one raw row
Normalize ==
    /\ norm' = <<transformRow(raw)>>
    /\ UNCHANGED <<raw, proxyVars, widgetVars>>

NormInit == raw \in RawRows /\ norm = <<>>

NormSpecInit == NormInit /\ ProxyIdle /\ WidgetIdle

NormSpec == NormSpecInit /\ [][Normalize]_vars

-----------------------------------------------------------------------------
(* Properties of the Proxy (ProxySpec)                                     *)

handled == ppc = "done"

\* The request's body is a JSON object without a field its shape requires.
lacksRequired ==
    /\ req.body.json = "object"
    /\ IF proxyKind = "deepseek"
       THEN req.body.budgetData = "absent" \/ req.body.department = "absent"
       ELSE req.body.prompt \in {"absent", "number"}

\* The vendor answered with a non-success status and an error body.
vendorFailed ==
    vendorReply.kind = "http" /\ vendorReply.status # 200
    /\ vendorReply.body = "raw"

\* An exception was thrown inside the try block.
thrown ==
    /\ ~answersPreflight(proxyKind, req.method)
    /\ \/ proxyTry(proxyKind, apiKey, req.body).kind = "throw"
       \/ /\ vendorReply # NoReply
          /\ proxyAfterFetch(proxyKind, vendorReply).kind = "throw"

\* C1 as stated: every POST handled while the key is absent is answered with
\* HTTP 500 and no vendor call is made for it.
C1_KeyMissingAlways500 ==
    (handled /\ ~apiKey /\ req.method = "POST") =>
        (resp.status = 500 /\ vendorCalls = 0)

\* C1 amended: while the key is absent no vendor call is issued for any
\* request, and a handled POST is answered with HTTP 500, except that the
\* Gemini revision validates first and answers a JSON object without a
\* string prompt with HTTP 400.
C1_KeyMissingFailsClosed ==
    ~apiKey =>
        /\ vendorCalls = 0
        /\ ppc # "awaitVendor"
        /\ (handled /\ req.method = "POST") =>
             /\ responses = 1
             /\ resp.shape = "error"
             /\ resp.status =
                  IF /\ proxyKind = "gemini"
                     /\ req.body.json = "object"
                     /\ req.body.prompt # "string"
                  THEN 400
                  ELSE 500

C1_Witness ==
    /\ handled /\ ~apiKey /\ req.method = "POST"
    /\ req.body.json = "object" /\ req.body.prompt = "string"
    /\ req.body.budgetData = "rows" /\ req.body.department = "string"
    /\ resp.status = 500 /\ vendorCalls = 0

\* C2: a POST whose JSON body lacks a required field is answered with HTTP 400
\* and an {error} body, without a vendor call, whether or not the key is set.
C2_MissingFieldIs400 ==
    (handled /\ req.method = "POST" /\ lacksRequired) =>
        (resp.status = 400 /\ resp.shape = "error" /\ vendorCalls = 0)

\* C3 as stated: a vendor failure with status s is answered with the same
\* status s and a body {error, details} holding the vendor's raw error body.
C3_VendorStatusPassedThrough ==
    (handled /\ vendorFailed) =>
        /\ resp.status = vendorReply.status
        /\ resp.shape = "error"
        /\ resp.details = "vendorBody"
        /\ resp.vstatus = 0

\* C3 amended: a vendor failure with status s and an error body is answered
\* with {error, details} holding the vendor's raw error body; the DeepSeek
\* revision answers with status s, the Gemini revision with status 500 and s
\* in the body's status field.
C3_VendorFailureRelayed ==
    (handled /\ vendorFailed) =>
        /\ resp.shape = "error"
        /\ resp.details = "vendorBody"
        /\ resp.error # ""
        /\ IF proxyKind = "deepseek"
           THEN resp.status = vendorReply.status /\ resp.vstatus = 0
           ELSE resp.status = 500 /\ resp.vstatus = vendorReply.status

C3_Witness ==
    /\ handled /\ vendorFailed /\ proxyKind = "deepseek"
    /\ vendorReply.status = 429 /\ resp.status = 429

\* C5 as stated: every non-OPTIONS request ends in exactly one response with
\* a status and a body {insights} or {error[, details]}; no exception leaves
\* the handler, and a thrown exception yields 500 "Internal server error".
C5_AlwaysStructuredResponse ==
    /\ ~escaped
    /\ responses <= 1
    /\ (handled /\ req.method # "OPTIONS") =>
         /\ responses = 1
         /\ resp.status \in {200, 400, 429, 500}
         /\ resp.shape \in {"insights", "error"}
         /\ resp.shape = "insights" => resp.insights # ""
         /\ resp.shape = "error" => (resp.error # "" /\ resp.vstatus = 0)
         /\ thrown => /\ resp.status = 500
                      /\ resp.error = "Internal server error"
                      /\ resp.details = "exception"

\* C5 amended: as stated, except that the error of a thrown exception is
\* "Internal server error" in the DeepSeek revision and "Edge Function
\* crashed" in the Gemini revision, and the Gemini revision's body for a
\* vendor failure is {error, status, details}.
C5_EveryPathResponds ==
    /\ ~escaped
    /\ responses <= 1
    /\ (handled /\ req.method # "OPTIONS") =>
         /\ responses = 1
         /\ resp.status \in {200, 400, 429, 500}
         /\ resp.shape \in {"insights", "error"}
         /\ resp.shape = "insights" => resp.insights # ""
         /\ resp.shape = "error" =>
              /\ resp.error # ""
              /\ resp.vstatus # 0 => (proxyKind = "gemini" /\ vendorFailed)
         /\ thrown => /\ resp.status = 500
                      /\ resp.error = IF proxyKind = "deepseek"
                                      THEN "Internal server error"
                                      ELSE "Edge Function crashed"
                      /\ resp.details = "exception"

C5_Witness ==
    /\ handled /\ req.method = "POST" /\ thrown
    /\ vendorReply.kind = "network"
    /\ responses = 1 /\ resp.status = 500

-----------------------------------------------------------------------------
(* Properties of the Widget (WidgetSpec)                                   *)

clicked == lastEvent \in {"clickIgnored", "clickNoData", "clickNoValid", "clickSent"}

allZero(item) ==
    item.allocated = num(0) /\ item.spent = num(0) /\ item.remaining = num(0)

\* Every row of the prop is all zero after coercion.
everyRowZero == \A i \in 1..Len(budgetData) : allZero(transformRow(budgetData[i]))

noZeroRowSent ==
    \A i \in 1..Len(pending) : \A j \in 1..Len(pending[i]) : ~allZero(pending[i][j])

\* C4: when the invoke fails with HTTP 429 the notification differs from the
\* generic 'Analysis Failed' one.
C4_QuotaNotification ==
    (lastEvent = "settled" /\ outcome = "failed" /\ lastStatus = 429) =>
        toast # "Analysis Failed"

C7_ZeroRowsNeverSent ==
    /\ noZeroRowSent
    /\ (lastEvent \in {"clickNoValid", "clickSent"} /\ everyRowZero) =>
         (lastEvent = "clickNoValid" /\ toast = "No Valid Data"
          /\ pending = <<>>)

\* C7 amended: in the two filtering revisions no all-zero row is in a payload
\* and a click on rows that are all zero sends nothing and shows 'No Valid
\* Data'; the AiInsights.tsx revision filters nothing and sends every
\* transformed row, all-zero rows included.
C7_ZeroRowsFilteredWhereFiltering ==
    /\ widgetKind \in {"promptFiltered", "structured"} =>
         /\ noZeroRowSent
         /\ \A i \in 1..Len(pending) : Len(pending[i]) > 0
         /\ (lastEvent \in {"clickNoValid", "clickSent"} /\ everyRowZero) =>
              (lastEvent = "clickNoValid" /\ toast = "No Valid Data"
               /\ pending = <<>> /\ ~loading)
    /\ (widgetKind = "prompt" /\ lastEvent = "clickSent") =>
         pending[Len(pending)] = [i \in 1..Len(budgetData) |-> transformRow(budgetData[i])]

C7_Witness ==
    /\ widgetKind = "promptFiltered" /\ lastEvent = "clickSent"
    /\ Len(budgetData) = 2 /\ allZero(transformRow(budgetData[1]))
    /\ Len(pending) = 1 /\ Len(pending[1]) = 1

C10_NoStaleText ==
    /\ pending # <<>> => insights = ""
    /\ outcome = "failed" => insights = ""

\* C10 amended: in the two revisions that clear the text before a request
\* (AiInsights.tsx and the first component of part_000) the displayed text is
\* empty whenever a request is pending and whenever the most recent request
\* ended in failure; the structured revision does not clear it.
C10_NoStaleTextWhereCleared ==
    widgetKind \in {"prompt", "promptFiltered"} =>
        /\ pending # <<>> => insights = ""
        /\ outcome = "failed" => insights = ""

C10_Witness ==
    /\ widgetKind = "prompt" /\ pending # <<>> /\ insights = ""
    /\ toast = "AI Analysis Complete"

\* C11: after an accepted click the loading flag eventually returns to false
\* whichever way the request ends, given that the invoke returns or throws;
\* loading is true only while that click's invoke is in flight, and it is
\* false once the handler has ended.
C11_LoadingReturns ==
    /\ loading ~> ~loading
    /\ [](loading => pending # <<>>)
    /\ [](lastEvent \in {"clickNoValid", "settled"} => ~loading)

C11_Witness ==
    /\ lastEvent = "settled" /\ outcome = "failed" /\ ~loading
    /\ pending = <<>> /\ Len(budgetData) > 0
    /\ ~disabled(loading, budgetData)

-----------------------------------------------------------------------------
(* Properties of the coercion (NormSpec)                                   *)

missingOrNonNumeric(x) == x.t \in {"NaN", "text", "emptyString", "null", "undefined"}

\* C8 as stated: each normalized amount is a number that is zero or
\* non-negative, and 0 whenever the raw value is missing or non-numeric.
C8_NonNegativeAmounts ==
    Len(norm) = 1 =>
        \A f \in {<<raw.budget, norm[1].allocated>>,
                  <<raw.used, norm[1].spent>>,
                  <<raw.remaining, norm[1].remaining>>} :
            /\ ~f[2].nan
            /\ f[2].v >= 0
            /\ missingOrNonNumeric(f[1]) => f[2].v = 0

\* C8 amended: each normalized amount is a number, never NaN, equal to the
\* numeric value of the raw field (a negative value stays negative), and 0
\* whenever the raw value is missing or non-numeric.
C8_NumericAmounts ==
    Len(norm) = 1 =>
        \A f \in {<<raw.budget, norm[1].allocated>>,
                  <<raw.used, norm[1].spent>>,
                  <<raw.remaining, norm[1].remaining>>} :
            /\ ~f[2].nan
            /\ f[2].v \in Amounts
            /\ missingOrNonNumeric(f[1]) => f[2].v = 0
            /\ ~missingOrNonNumeric(f[1]) => f[2].v = f[1].v

C8_Witness ==
    /\ Len(norm) = 1
    /\ raw.budget.t = "text" /\ norm[1].allocated = num(0)
    /\ raw.used = rawNum(0 - 1) /\ norm[1].spent = num(0 - 1)
    /\ raw.remaining.t = "undefined" /\ norm[1].remaining = num(0)

====
